---- MODULE Spec2Model ----
(***************************************************************************)
(* A model of the message dispatcher of the murmel SPV node                *)
(* (src/src/dispatcher.rs): Dispatcher::process and its handlers for       *)
(* Headers, Inv, Addr, Ping, Block and unknown messages, and the connected *)
(* event, over the HeaderStore (chaindb), the AddressStore (configdb) and  *)
(* the PeerTable.                                                          *)
(*                                                                         *)
(* The HeaderStore and the AddressStore are collaborators whose code is    *)
(* not part of the source files at hand; their operations are modelled     *)
(* from their contracts (add_header, unwind_tip, batch, header_locators,   *)
(* get_header; transaction, store_peer, commit).                           *)
(*                                                                         *)
(* One dispatch is one action: the P2P task calls process() and the        *)
(* handler runs to its return without yielding.  What the handler did is   *)
(* kept in `last` (the message, the store before, the calls it made in     *)
(* order, the ProcessResult) until the P2P task takes the result.          *)
(***************************************************************************)
EXTENDS Integers, Sequences, FiniteSets, TLC

VARIABLES
  hdrs,      \* HeaderStore: hashes of the stored headers (in-memory header tree)
  tip,       \* HeaderStore: hash of the tip
  durable,   \* HeaderStore: [hdrs, tip] as of the last batch() that returned Ok
  addrs,     \* AddressStore: socket_addr -> record, NoRecord when absent
  peers,     \* PeerTable: ids of the peers that have a PeerHandle
  download_queue, \* Node (node.rs): hashes of the blocks to fetch, front first
  keeper,    \* KeepConnected (constructor.rs): the future that keeps the node connected
  sched,     \* the threads that call into the Dispatcher and the Broadcaster, and the locks they hold
  remote,    \* the peer that answers GetHeaders: its best tip and the size of its batches
  pc,        \* "idle": P2P may dispatch; "done": a dispatch returned, result not yet taken
  last       \* the dispatch that returned last (pc = "done")

vars == <<hdrs, tip, durable, addrs, peers, download_queue, keeper, sched, remote, pc, last>>

----------------------------------------------------------------------------
(* Bounds of the model *)

\* longest Headers message
MaxHeaders == 2
\* longest Inv message
MaxInv == 2
\* longest Addr message
MaxAddr == 2
\* a failing store or send call is the 1st .. MaxFaultAt-th call of its kind in the dispatch
MaxFaultAt == 2
\* largest min_connections the node is run with
MaxMinConnections == 2
\* most headers a peer puts into one Headers message
MaxBatch == 2

----------------------------------------------------------------------------
(* Headers.  A header is named by its hash.  The universe is a small tree: *)
(*    0 (genesis) - 1 - 2          branch A, each header adds work 1       *)
(*    0           - 3 - 4          branch B, 3 adds work 1, 4 adds work 2  *)
(*    0           - 5              header 5 fails the proof-of-work check  *)
(* so that 1 and 3 tie, 0-3-4 outweighs 0-1-2 (a reorg of depth 2), and a  *)
(* header whose parent is not stored yet is an orphan.                     *)

NoHeader == -1
Genesis == 0
HeaderIds == 1 .. 5

prev_blockhash(h) ==
  CASE h = 1 -> 0
    [] h = 2 -> 1
    [] h = 3 -> 0
    [] h = 4 -> 3
    [] h = 5 -> 0
    [] OTHER -> NoHeader

\* work contributed by the header's own target: 2^256 / (expand(bits) + 1), scaled
HeaderWork(h) == IF h = 4 THEN 2 ELSE 1

\* pow(hash) <= expand(bits) and bits matches the retarget rule
PowOk(h) == h # 5

RECURSIVE Work(_)
Work(h) == IF h = Genesis THEN 1 ELSE Work(prev_blockhash(h)) + HeaderWork(h)

RECURSIVE HeightOf(_)
HeightOf(h) == IF h = Genesis THEN 0 ELSE HeightOf(prev_blockhash(h)) + 1

RECURSIVE Ancestors(_)
Ancestors(h) == IF h = Genesis THEN {Genesis} ELSE {h} \cup Ancestors(prev_blockhash(h))

\* the headers from h down to `stop` (exclusive), h first
RECURSIVE DownTo(_, _)
DownTo(h, stop) == IF h = stop \/ h = NoHeader THEN <<>>
                   ELSE <<h>> \o DownTo(prev_blockhash(h), stop)

Reverse(s) == [i \in 1 .. Len(s) |-> s[Len(s) + 1 - i]]

\* the highest header that is an ancestor of both a and b
ForkPoint(a, b) ==
  CHOOSE x \in Ancestors(a) \cap Ancestors(b) :
    \A y \in Ancestors(a) \cap Ancestors(b) : HeightOf(y) <= HeightOf(x)

----------------------------------------------------------------------------
(* HeaderStore (chaindb).  st = [hdrs, tip]. *)

\* add_header: Ok(None), Ok(Some(stored, unwinds?, forwards?)) or an error.
\* ret is "None", "Some", "BadProofOfWork" or "OrphanHeader"; st is the store after.
add_header(st, h) ==
  LET none == [ret |-> "None", st |-> st, stored |-> h,
               unwinds |-> <<>>, forwards |-> <<>>, reorg |-> FALSE]
  IN  IF h \in st.hdrs THEN none
      ELSE IF prev_blockhash(h) \notin st.hdrs THEN [none EXCEPT !.ret = "OrphanHeader"]
      ELSE IF ~PowOk(h) THEN [none EXCEPT !.ret = "BadProofOfWork"]
      ELSE IF prev_blockhash(h) = st.tip
        THEN \* extends the trunk
             [ret |-> "Some", st |-> [hdrs |-> st.hdrs \cup {h}, tip |-> h], stored |-> h,
              unwinds |-> <<>>, forwards |-> <<h>>, reorg |-> FALSE]
      ELSE IF Work(h) > Work(st.tip)
        THEN \* a new best chain: reorg
             LET fork == ForkPoint(st.tip, h)
             IN  [ret |-> "Some", st |-> [hdrs |-> st.hdrs \cup {h}, tip |-> h], stored |-> h,
                  unwinds |-> DownTo(st.tip, fork),
                  forwards |-> Reverse(DownTo(h, fork)), reorg |-> TRUE]
      ELSE \* a sibling branch that is not now best: kept in the tree, reported as None
           [none EXCEPT !.st = [hdrs |-> st.hdrs \cup {h}, tip |-> st.tip]]

\* unwind_tip(hash): removes hash iff it is the current tip
unwind_tip(st, h) ==
  IF h = st.tip /\ h # Genesis
    THEN [removed |-> TRUE, st |-> [hdrs |-> st.hdrs \ {h}, tip |-> prev_blockhash(h)]]
    ELSE [removed |-> FALSE, st |-> st]

\* get_header(hash).is_some()
get_header(st, h) == h \in st.hdrs

\* header_locators(): tip, tip-1, tip-2, then doubling steps back, ending at genesis
RECURSIVE AncestorAt(_, _)
AncestorAt(h, n) == IF n = 0 \/ h = Genesis THEN h ELSE AncestorAt(prev_blockhash(h), n - 1)

RECURSIVE LocatorFrom(_, _)
LocatorFrom(t, off) ==
  IF off >= HeightOf(t) THEN <<Genesis>>
  ELSE <<AncestorAt(t, off)>> \o LocatorFrom(t, IF off >= 2 THEN 2 * off ELSE off + 1)

header_locators(st) == IF st.tip = NoHeader THEN <<>> ELSE LocatorFrom(st.tip, 0)

----------------------------------------------------------------------------
(* AddressStore (configdb).  A store maps each socket address to its       *)
(* record; addresses 1 and 2 are routable, 3 is an onion address, for      *)
(* which socket_addr() is an error.                                        *)

AddrIds == 1 .. 3
Routable(a) == a # 3

NoRecord == [present |-> FALSE, services |-> 0, last_seen |-> 0, ban_score |-> 0]

\* store_peer(addr, last_seen, ban_score): upsert by socket address
store_peer(ad, a, last_seen, ban_score) ==
  [ad EXCEPT ![a.addr] = [present |-> TRUE, services |-> a.services,
                          last_seen |-> last_seen, ban_score |-> ban_score]]

----------------------------------------------------------------------------
(* ProcessResult, and what process() returns: Ok(ProcessResult) or Err.    *)

BanBadPow == 100
BanUnwantedInv == 10
BanUnknownMessage == 1

Ack == [kind |-> "Ack", n |-> 0, err |-> ""]
Height(n) == [kind |-> "Height", n |-> n, err |-> ""]
Ignored == [kind |-> "Ignored", n |-> 0, err |-> ""]
Ban(n) == [kind |-> "Ban", n |-> n, err |-> ""]
\* Err(SPVError): the `?` operator hands the callee's error to the caller of process()
Err(e) == [kind |-> "Err", n |-> 0, err |-> e]
\* unwrap() on None
Panic == [kind |-> "Panic", n |-> 0, err |-> ""]
\* return of a function without a result: ()
Unit == [kind |-> "Unit", n |-> 0, err |-> ""]

(* The calls a handler makes, in order.  ev names the call; ret what it    *)
(* returned (or the message sent); h the header, address or nonce it is    *)
(* about; to the peer a message is sent to; seq a list (unwinds, locator,  *)
(* or <<last_seen, ban_score, services>>); ok whether it returned Ok (for  *)
(* add_header: whether it reported forwards).                              *)
Ev(ev, ret, h, to, seq, ok) ==
  [ev |-> ev, ret |-> ret, h |-> h, to |-> to, seq |-> seq, ok |-> ok]

(* Failures of the collaborators.  A fault [op, at] makes the at-th call   *)
(* of operation op in the dispatch fail; NoFault lets every call succeed.  *)
NoFault == [op |-> "none", at |-> 0]

Fails(c, f, op) == f.op = op /\ c.calls + 1 = f.at
Called(c, f, op) == IF f.op = op THEN [c EXCEPT !.calls = @ + 1] ELSE c

\* the handler's locals and the stores as it sees them
Context(p, table) ==
  [peer |-> p, peers |-> table, st |-> [hdrs |-> hdrs, tip |-> tip], durable |-> durable,
   ad |-> addrs, tx |-> addrs,
   dq |-> download_queue, txst |-> [hdrs |-> hdrs, tip |-> tip], download |-> <<>>, flag |-> FALSE,
   queue |-> <<>>, some_new |-> FALSE, moved |-> FALSE, moved_tip |-> NoHeader, height |-> 0,
   disc |-> <<>>, log |-> <<>>, calls |-> 0, exit |-> "run", result |-> Ack]

Return(c, r) == [c EXCEPT !.exit = "return", !.result = r]

----------------------------------------------------------------------------
(* Dispatcher *)

\* send to peer
send(c, f, ret, h, seq) ==
  IF c.peer \in c.peers
    THEN IF Fails(c, f, "send")
           THEN Return([Called(c, f, "send") EXCEPT
                          !.log = Append(@, Ev("send", ret, h, c.peer, seq, FALSE))],
                       Err("SendError"))
           ELSE [Called(c, f, "send") EXCEPT
                   !.log = Append(@, Ev("send", ret, h, c.peer, seq, TRUE)), !.result = Ack]
    ELSE [c EXCEPT !.result = Ack]

\* mutant: the stop hash is the far end of the locator
SendGetHeadersStopLast(c, f, locator) ==
  IF Len(locator) > 0
    THEN send(c, f, "GetHeaders", locator[Len(locator)], locator)
    ELSE [c EXCEPT !.result = Ack]

\* get headers this peer is ahead of us
SendGetHeaders(c, f, locator) ==
  IF Len(locator) > 0
    THEN send(c, f, "GetHeaders", Head(locator), locator)
    ELSE [c EXCEPT !.result = Ack]

get_headers(c, f) == SendGetHeaders(c, f, header_locators(c.st))

\* mutant: the pong does not carry the nonce of the ping
PongWithoutNonce(c, f, nonce) ==
  LET c1 == send(c, f, "Pong", 0, <<>>)
  IN  Return(c1, c1.result)

\* received ping
ping(c, f, nonce) ==
  LET c1 == send(c, f, "Pong", nonce, <<>>)
  IN  Return(c1, c1.result)

\* called whenever a new peer is connected
connected(c, f) ==
  LET c1 == get_headers(c, f)
  IN  IF c1.exit = "return" THEN c1 ELSE Return(c1, Ack)

\* process an incoming block
block(c) == Return(c, Ack)

\* any other message
other(c) == Return(c, Ban(BanUnknownMessage))

\* called whenever a peer is disconnected
disconnected(c) == Return(c, Ack)

(* ---- Broadcaster ---- *)

\* mutant: the first failing send ends the broadcast
RECURSIVE TxSendsUntilFailure(_, _, _)
TxSendsUntilFailure(order, failing, tx) ==
  IF order = <<>> THEN <<>>
  ELSE IF Head(order) \in failing THEN <<Ev("send", "Tx", tx, Head(order), <<>>, FALSE)>>
  ELSE <<Ev("send", "Tx", tx, Head(order), <<>>, TRUE)>> \o TxSendsUntilFailure(Tail(order), failing, tx)

\* for (pid, peer) in peers.iter() { peer.send(&Tx(tx.clone())).unwrap_or(()) }
\* order is the iteration order of the peer map, failing the handles whose send returns Err
RECURSIVE TxSends(_, _, _)
TxSends(order, failing, tx) ==
  IF order = <<>> THEN <<>>
  ELSE <<Ev("send", "Tx", tx, Head(order), <<>>, Head(order) \notin failing)>>
         \o TxSends(Tail(order), failing, tx)

\* send a transaction to all connected peers
broadcast_transaction(c, order, failing, tx) ==
  Return([c EXCEPT !.log = @ \o TxSends(order, failing, tx)], Unit)

(* ---- headers ---- *)

\* mutant: the height of the last stored header is not taken
NewHeightStale(height, stored) == height

\* height = stored.height
NewHeight(height, stored) == HeightOf(stored)

\* mutant: unwind_tip is called on the forwards
UnwindTargetsForwards(unwinds, forwards) == forwards

\* the hashes handed to unwind_tip after add_header reported (unwinds, forwards)
UnwindTargets(unwinds, forwards) == unwinds

\* mutant: the notifications go out fork side first
NotificationsReversed(disc) ==
  [i \in 1 .. Len(disc) |-> Ev("block_disconnected", "", disc[Len(disc) + 1 - i], 0, <<>>, TRUE)]

\* for header in &disconnected_headers { connector.block_disconnected(header) }
Notifications(disc) ==
  [i \in 1 .. Len(disc) |-> Ev("block_disconnected", "", disc[i], 0, <<>>, TRUE)]

\* mutant: more headers are asked for whatever was received
AskMoreAlways(some_new) == TRUE

\* mutant: no more headers are asked for, new ones received or not
AskMoreNever(some_new) == FALSE

\* if some_new { get_headers(peer)? }
AskMore(some_new) == some_new

\* for h in &unwinds { if chaindb.unwind_tip(h)? { .. } }
RECURSIVE UnwindAll(_, _, _)
UnwindStep(c, f, us, u) ==
  UnwindAll([Called(c, f, "unwind_tip") EXCEPT
               !.st = u.st,
               !.log = Append(@, Ev("unwind_tip", IF u.removed THEN "true" ELSE "false",
                                    Head(us), 0, <<>>, TRUE))],
            f, Tail(us))

UnwindAll(c, f, us) ==
  IF us = <<>> THEN c
  ELSE IF Fails(c, f, "unwind_tip")
    THEN Return([Called(c, f, "unwind_tip") EXCEPT
                   !.log = Append(@, Ev("unwind_tip", "Err", Head(us), 0, <<>>, FALSE))],
                Err("StoreError"))
    ELSE UnwindStep(c, f, us, unwind_tip(c.st, Head(us)))

\* disconnected_headers.extend(unwinds.iter().map(|h| chaindb.get_header(h).unwrap().header)); break
Unwound(c, unwinds) ==
  IF c.exit = "return" THEN c
  ELSE IF \E i \in 1 .. Len(unwinds) : ~get_header(c.st, unwinds[i]) THEN Return(c, Panic)
  ELSE [c EXCEPT !.disc = @ \o unwinds]

\* Ok(Some((stored, unwinds, forwards))): some_new, moved_tip and height
Noted(c, r) ==
  [c EXCEPT !.some_new = TRUE,
            !.moved = IF r.forwards # <<>> THEN TRUE ELSE @,
            !.moved_tip = IF r.forwards # <<>> THEN r.forwards[Len(r.forwards)] ELSE @,
            !.height = NewHeight(@, r.stored)]

\* while let Some(header) = headers_queue.pop_front() { match chaindb.add_header(..) {..} }
\* exit = "run" on leaving the loop (queue drained, or break after a reorg)
RECURSIVE HeadersInner(_, _)
\* mutant: an orphan is passed over and the loop goes on
MatchedSkippingOrphan(c, f, r) ==
  CASE r.ret = "BadProofOfWork" -> Return(c, Ban(BanBadPow))
    [] r.ret = "OrphanHeader" -> HeadersInner(c, f)
    [] r.ret = "None" -> HeadersInner(c, f)
    [] OTHER -> IF r.reorg
                  THEN Unwound(UnwindAll(Noted(c, r), f, UnwindTargets(r.unwinds, r.forwards)),
                               r.unwinds)
                  ELSE HeadersInner(Noted(c, r), f)

\* mutant: a header the store already knows counts as new
MatchedKnownIsNew(c, f, r) ==
  CASE r.ret = "BadProofOfWork" -> Return(c, Ban(BanBadPow))
    [] r.ret = "OrphanHeader" -> Return(c, Ignored)
    [] r.ret = "None" -> HeadersInner([c EXCEPT !.some_new = TRUE], f)
    [] OTHER -> IF r.reorg
                  THEN Unwound(UnwindAll(Noted(c, r), f, UnwindTargets(r.unwinds, r.forwards)),
                               r.unwinds)
                  ELSE HeadersInner(Noted(c, r), f)

Matched(c, f, r) ==
  CASE r.ret = "BadProofOfWork" -> Return(c, Ban(BanBadPow))
    [] r.ret = "OrphanHeader" -> Return(c, Ignored)
    [] r.ret = "None" -> HeadersInner(c, f)
    [] OTHER -> IF r.reorg
                  THEN Unwound(UnwindAll(Noted(c, r), f, UnwindTargets(r.unwinds, r.forwards)),
                               r.unwinds)
                  ELSE HeadersInner(Noted(c, r), f)

AddHeaderStep(c, f, h, r) ==
  Matched([Called(c, f, "add_header") EXCEPT
             !.queue = Tail(@), !.st = r.st,
             !.log = Append(@, Ev("add_header", r.ret, h, 0, r.unwinds, r.forwards # <<>>))],
          f, r)

HeadersInner(c, f) ==
  IF c.queue = <<>> THEN c
  ELSE IF Fails(c, f, "add_header")
    THEN \* Err(e), e not SpvBadProofOfWork
         Return([Called(c, f, "add_header") EXCEPT
                   !.queue = Tail(@),
                   !.log = Append(@, Ev("add_header", "StoreError", Head(c.queue), 0, <<>>, FALSE))],
                Ignored)
    ELSE AddHeaderStep(c, f, Head(c.queue), add_header(c.st, Head(c.queue)))

\* chaindb.batch()?
batch(c, f) ==
  IF Fails(c, f, "batch")
    THEN Return([Called(c, f, "batch") EXCEPT
                   !.log = Append(@, Ev("batch", "Err", 0, 0, <<>>, FALSE))],
                Err("StoreError"))
    ELSE [Called(c, f, "batch") EXCEPT
            !.durable = c.st, !.log = Append(@, Ev("batch", "Ok", 0, 0, <<>>, TRUE))]

\* while !headers_queue.is_empty() { .. inner loop .. batch()?; notify }
RECURSIVE HeadersOuter(_, _)
Batched(c, f) ==
  IF c.exit = "return" THEN c
  ELSE HeadersOuter([c EXCEPT !.log = @ \o Notifications(c.disc)], f)

Drained(c, f) == IF c.exit = "return" THEN c ELSE Batched(batch(c, f), f)

HeadersOuter(c, f) ==
  IF c.queue = <<>> THEN c
  ELSE Drained(HeadersInner([c EXCEPT !.disc = <<>>], f), f)

\* if some_new { get_headers(peer)? }; Height(height) if the tip moved, else Ack
Asked(c) ==
  IF c.exit = "return" THEN c
  ELSE IF c.moved THEN Return(c, Height(c.height))
  ELSE Return(c, Ack)

Processed(c, f) ==
  IF c.exit = "return" THEN c
  ELSE IF AskMore(c.some_new) THEN Asked(get_headers(c, f))
  ELSE Asked(c)

\* process headers message
headers(c, f, v) ==
  IF Len(v) > 0
    THEN IF c.st.tip = NoHeader THEN Return(c, Err("NoTip"))
         ELSE Processed(HeadersOuter([c EXCEPT !.height = HeightOf(c.st.tip), !.queue = v], f), f)
    ELSE Return(c, Ignored)

(* ---- inv ---- *)

\* mutant: an entry that is not a Block is skipped
RECURSIVE InvScanSkipping(_, _, _)
InvScanSkipping(st, v, ask) ==
  IF v = <<>> THEN [ban |-> FALSE, ask |-> ask]
  ELSE IF Head(v).inv_type = "Block"
    THEN InvScanSkipping(st, Tail(v), ask \/ ~get_header(st, Head(v).hash))
    ELSE InvScanSkipping(st, Tail(v), ask)

\* mutant: the last Block entry alone decides
RECURSIVE InvScanOverwriting(_, _, _)
InvScanOverwriting(st, v, ask) ==
  IF v = <<>> THEN [ban |-> FALSE, ask |-> ask]
  ELSE IF Head(v).inv_type = "Block"
    THEN InvScanOverwriting(st, Tail(v), ~get_header(st, Head(v).hash))
    ELSE [ban |-> TRUE, ask |-> ask]

\* for inventory in v { if Block { if get_header(hash).is_none() { ask = true } } else { return Ban(10) } }
RECURSIVE InvScan(_, _, _)
InvScan(st, v, ask) ==
  IF v = <<>> THEN [ban |-> FALSE, ask |-> ask]
  ELSE IF Head(v).inv_type = "Block"
    THEN InvScan(st, Tail(v), ask \/ ~get_header(st, Head(v).hash))
    ELSE [ban |-> TRUE, ask |-> ask]

\* process an incoming inventory announcement
inv(c, f, v) ==
  LET s == InvScan(c.st, v, FALSE)
  IN  IF s.ban THEN Return(c, Ban(BanUnwantedInv))
      ELSE IF s.ask
        THEN LET c1 == get_headers(c, f)
             IN  IF c1.exit = "return" THEN c1 ELSE Return(c1, Ack)
      ELSE Return(c, Ignored)

(* ---- addr ---- *)

ServicesMask == 9

RECURSIVE BitAnd(_, _)
BitAnd(a, b) == IF a = 0 \/ b = 0 THEN 0
                ELSE (a % 2) * (b % 2) + 2 * BitAnd(a \div 2, b \div 2)

\* mutant: an entry exactly 5400 s old is taken
InterestingInclusive(a, now) ==
  /\ Routable(a.addr)
  /\ BitAnd(a.services, 9) = 9
  /\ a.ts >= now - 3 * 60 * 30

\* mutant: one bit of the mask is enough
InterestingAnyBit(a, now) ==
  /\ Routable(a.addr)
  /\ BitAnd(a.services, 9) # 0
  /\ a.ts > now - 3 * 60 * 30

\* socket_addr().is_ok() && services & 9 == 9 && a.0 > now - 3 * 60 * 30
Interesting(a, now) ==
  /\ Routable(a.addr)
  /\ BitAnd(a.services, ServicesMask) = ServicesMask
  /\ a.ts > now - 3 * 60 * 30

\* for a in v.iter() { if interesting { tx.store_peer(&a.1, a.0, 0)?; result = Ack } }
RECURSIVE AddrLoop(_, _, _, _)
AddrLoop(c, f, v, now) ==
  IF v = <<>> THEN c
  ELSE LET a == Head(v)
       IN  IF Interesting(a, now)
             THEN IF Fails(c, f, "store_peer")
                    THEN Return([Called(c, f, "store_peer") EXCEPT
                                   !.log = Append(@, Ev("store_peer", "Err", a.addr, 0,
                                                        <<a.ts, 0, a.services>>, FALSE))],
                                Err("StoreError"))
                    ELSE AddrLoop([Called(c, f, "store_peer") EXCEPT
                                     !.tx = store_peer(@, a, a.ts, 0),
                                     !.result = Ack,
                                     !.log = Append(@, Ev("store_peer", "Ok", a.addr, 0,
                                                          <<a.ts, 0, a.services>>, TRUE))],
                                  f, Tail(v), now)
             ELSE AddrLoop(c, f, Tail(v), now)

\* process incoming addr messages; a transaction dropped without commit is rolled back
addr(c, f, v, now) ==
  IF Fails(c, f, "transaction")
    THEN Return([Called(c, f, "transaction") EXCEPT
                   !.log = Append(@, Ev("transaction", "Err", 0, 0, <<>>, FALSE))],
                Err("StoreError"))
    ELSE
      LET c0 == [Called(c, f, "transaction") EXCEPT
                   !.result = Ignored, !.tx = c.ad,
                   !.log = Append(@, Ev("transaction", "Ok", 0, 0, <<>>, TRUE))]
          c1 == AddrLoop(c0, f, v, now)
      IN  IF c1.exit = "return" THEN c1
          ELSE IF Fails(c1, f, "commit")
            THEN Return([Called(c1, f, "commit") EXCEPT
                           !.log = Append(@, Ev("commit", "Err", 0, 0, <<>>, FALSE))],
                        Err("StoreError"))
          ELSE Return([Called(c1, f, "commit") EXCEPT
                         !.ad = c1.tx,
                         !.log = Append(@, Ev("commit", "Ok", 0, 0, <<>>, TRUE))],
                      c1.result)

----------------------------------------------------------------------------
(* Node (node.rs): the legacy message handler.  It keeps the DownloadQueue *)
(* and works on the header store through a transaction of the legacy       *)
(* store: c.txst is the store as the open transaction sees it, c.st the    *)
(* committed store.                                                        *)

BanKnownHeaders == 5

\* tx.insert_header: Ok(stored) or an error; the tip follows the chain of most work
insert_header(st, h) ==
  LET r == add_header(st, h)
  IN  [ret |-> IF r.ret \in {"Some", "None"} THEN "Ok" ELSE r.ret,
       stored |-> r.ret \in {"Some", "None"} /\ h \notin st.hdrs,
       st |-> r.st]

\* tx.is_on_trunk(hash)
is_on_trunk(st, h) == h \in Ancestors(st.tip)

\* while !tx.is_on_trunk(&old_tip) { push the header of old_tip; old_tip = its prev_blockhash }
RECURSIVE OffTrunk(_, _)
OffTrunk(st, t) == IF is_on_trunk(st, t) THEN <<>> ELSE <<t>> \o OffTrunk(st, prev_blockhash(t))

\* blocks.iter().position(|b| !dq.iter().any(|a| a == b)); 0 stands for None
FirstNew(dq, blocks) ==
  LET new == {i \in 1 .. Len(blocks) : \A k \in 1 .. Len(dq) : dq[k] # blocks[i]}
  IN  IF new = {} THEN 0 ELSE CHOOSE i \in new : \A j \in new : i <= j

\* dq.extend(blocks[new_blocks ..].iter())
Enqueue(dq, blocks) ==
  IF FirstNew(dq, blocks) = 0 THEN dq
  ELSE dq \o SubSeq(blocks, FirstNew(dq, blocks), Len(blocks))

\* the handler goes on unless a call made it return
Finish(c, r) == IF c.exit = "return" THEN c ELSE Return(c, r)

\* return Ok(true) after the GetData was sent
Flagged(c) == IF c.exit = "return" THEN c ELSE [c EXCEPT !.flag = TRUE]

\* if let Some(ask) = dq.front() { send GetData(WitnessBlock, ask); Ok(true) } else Ok(false)
AskFront(c, f) ==
  IF c.dq # <<>> THEN Flagged(send(c, f, "GetData", Head(c.dq), <<>>))
  ELSE [c EXCEPT !.flag = FALSE]

download_blocks(c, f, blocks) == AskFront([c EXCEPT !.dq = Enqueue(@, blocks)], f)

\* if !download_blocks(peer, vec!())? { send GetHeaders(locator, first) }
NodeLocator(c, f) ==
  IF c.exit = "return" THEN c
  ELSE IF ~c.flag THEN SendGetHeaders(c, f, header_locators(c.st))
  ELSE [c EXCEPT !.result = Ack]

\* Node::get_headers
node_get_headers(c, f) == NodeLocator(download_blocks(c, f, <<>>), f)

\* Node::connected
node_connected(c, f) == Finish(node_get_headers(c, f), Ack)

\* mutant: the front is popped whatever block arrived
PopAlways(dq, b) == IF dq = <<>> THEN dq ELSE Tail(dq)

\* if let Some(expected) = dq.pop_front() { if expected != block.bitcoin_hash() { dq.push_front(expected) } }
PopExpected(dq, b) ==
  IF dq = <<>> THEN dq
  ELSE IF Head(dq) # b THEN <<Head(dq)>> \o Tail(dq)
  ELSE Tail(dq)

\* Node::block: store the block, pop the queue if the block is the expected one, get_headers
node_block(c, f, b) ==
  Finish(node_get_headers([c EXCEPT !.dq = PopExpected(@, b),
                                    !.log = Append(@, Ev("store_block", "Ok", b, 0, <<>>, TRUE))],
                          f),
         Ack)

\* Ok(stored) arm of the match on tx.insert_header
NodeInserted(c, h, old_tip, r) ==
  [c EXCEPT !.txst = r.st,
            !.queue = Tail(@),
            !.moved = @ \/ r.st.tip # old_tip,
            !.some_new = @ \/ r.stored,
            !.disc = IF h = r.st.tip /\ prev_blockhash(h) # old_tip
                       THEN @ \o OffTrunk(r.st, old_tip) ELSE @,
            !.download = Append(@, r.st.tip),
            !.log = Append(@, Ev("insert_header", IF r.stored THEN "true" ELSE "false",
                                 h, 0, <<>>, r.st.tip # old_tip))]

\* for header in headers { match tx.insert_header(&header.header) {..} }
\* an early return drops the transaction: the committed store c.st stays as it was
RECURSIVE NodeHeadersLoop(_)
NodeMatched(c, h, old_tip, r) ==
  CASE r.ret = "BadProofOfWork" -> Return(c, Ban(BanBadPow))
    [] r.ret = "Ok" -> NodeHeadersLoop(NodeInserted(c, h, old_tip, r))
    [] OTHER -> Return(c, Ignored)

NodeHeadersLoop(c) ==
  IF c.queue = <<>> THEN c
  ELSE NodeMatched(c, Head(c.queue), c.txst.tip, insert_header(c.txst, Head(c.queue)))

\* height of the tip, tx.commit()
NodeCommitted(c) ==
  [c EXCEPT !.st = c.txst, !.durable = c.txst, !.height = HeightOf(c.txst.tip)]

\* if some_new { get_headers(peer)? }; Height(height)
NodeAsked(c, f) ==
  IF c.some_new THEN Finish(node_get_headers(c, f), Height(c.height))
  ELSE Return(c, Height(c.height))

\* notify the connector of the disconnected headers
NodeNotified(c, f) ==
  IF c.exit = "return" THEN c
  ELSE NodeAsked([c EXCEPT !.log = @ \o Notifications(c.disc)], f)

\* if tip_moved { commit; download_blocks(peer, download)? } else { commit; return Ban(5) }
NodeSettled(c, f) ==
  IF c.exit = "return" THEN c
  ELSE IF c.moved THEN NodeNotified(download_blocks(NodeCommitted(c), f, c.download), f)
  ELSE Return(NodeCommitted(c), Ban(BanKnownHeaders))

\* Node::headers
node_headers(c, f, v) ==
  IF Len(v) > 0 THEN NodeSettled(NodeHeadersLoop([c EXCEPT !.queue = v]), f)
  ELSE Return(c, Ignored)

----------------------------------------------------------------------------
(* KeepConnected (constructor.rs): the future that keeps the node          *)
(* connected.  A connection is the future add_peer returned for a dial:    *)
(* addr is the address dialed, src where the address came from ("boot",    *)
(* "db", "dns"), done whether the future has completed (the peer is lost   *)
(* or the dial failed).  state is "start" before the first poll, "pending" *)
(* after poll returned Pending, "ready" after it returned Ready (the fatal *)
(* exit) and "spin" while dns_lookup loops without end.  log holds the     *)
(* calls of the last poll, polled whether nothing happened since.          *)

\* addresses the DNS seeds of the network resolve to
DnsSeeds == <<11, 12>>
\* address of a peer given on the command line
BootPeer == 21

KEv(ev, a, src) == [ev |-> ev, a |-> a, src |-> src]

\* KeepConnected { min_connections, connections: added, db, p2p, dns: Vec::new(), nodns, earlier: HashSet::new() }
KeepConnected(min_connections, added, nodns, seeds) ==
  [min_connections |-> min_connections, connections |-> added, dns |-> <<>>,
   earlier |-> {}, nodns |-> nodns, seeds |-> seeds,
   state |-> "start", log |-> <<>>, ndial |-> 0, polled |-> FALSE]

\* random picks a poll may need: a DNS dial fills a free slot under the quota, and
\* a slot is freed only by dropping a connection that was there when the poll began
DialBound == MaxMinConnections

RECURSIVE FirstIn(_, _)
FirstIn(order, S) ==
  IF order = <<>> THEN 0
  ELSE IF Head(order) \in S THEN Head(order)
  ELSE FirstIn(Tail(order), S)

\* tx.get_a_peer(&earlier): a stored record not in the exclude set, 0 for NotFound;
\* order is the store's selection policy
get_a_peer(ad, exclude, order) ==
  FirstIn(order, {a \in AddrIds : ad[a].present /\ a \notin exclude})

\* while connections.len() < min_connections { get_a_peer(&earlier): insert into earlier, dial; else break }
RECURSIVE peers_from_db(_, _, _)
\* mutant: the address dialed is not put into the tried set
FromDbForgetting(k, ad, order, a) ==
  IF a = 0 THEN [k EXCEPT !.log = Append(@, KEv("get_a_peer", 0, "db"))]
  ELSE IF ~Routable(a) THEN [k EXCEPT !.log = Append(@, KEv("get_a_peer", a, "db"))]
  ELSE peers_from_db([k EXCEPT !.connections = Append(@, [addr |-> a, src |-> "db", done |-> FALSE,
                                                          waker |-> FALSE]),
                               !.log = @ \o <<KEv("get_a_peer", a, "db"), KEv("add_peer", a, "db")>>],
                     ad, order)

FromDb(k, ad, order, a) ==
  IF a = 0 THEN [k EXCEPT !.log = Append(@, KEv("get_a_peer", 0, "db"))]
  ELSE IF ~Routable(a) THEN [k EXCEPT !.log = Append(@, KEv("get_a_peer", a, "db"))]
  ELSE peers_from_db([k EXCEPT !.earlier = @ \cup {a},
                               !.connections = Append(@, [addr |-> a, src |-> "db", done |-> FALSE, waker |-> FALSE]),
                               !.log = @ \o <<KEv("get_a_peer", a, "db"), KEv("add_peer", a, "db")>>],
                     ad, order)

peers_from_db(k, ad, order) ==
  IF Len(k.connections) < k.min_connections
    THEN FromDb(k, ad, order, get_a_peer(ad, k.earlier, order))
    ELSE k

\* if self.dns.len() == 0 { self.dns = dns_seed(network) }
Refreshed(k) ==
  IF k.dns = <<>>
    THEN [k EXCEPT !.dns = k.seeds, !.log = Append(@, KEv("dns_seed", Len(k.seeds), "dns"))]
    ELSE k

\* while connections.len() < min_connections { refresh; if dns.len() > 0 { dial dns[rng % len] } }
\* with no seed address the loop never ends
RECURSIVE dns_lookup(_, _)
AfterRefresh(k, picks) ==
  IF k.dns = <<>> THEN [k EXCEPT !.state = "spin"]
  ELSE dns_lookup([k EXCEPT !.ndial = @ + 1,
                            !.connections = Append(@, [addr |-> k.dns[(picks[k.ndial + 1] % Len(k.dns)) + 1],
                                                       src |-> "dns", done |-> FALSE, waker |-> FALSE]),
                            !.log = Append(@, KEv("add_peer", k.dns[(picks[k.ndial + 1] % Len(k.dns)) + 1], "dns"))],
                  picks)

dns_lookup(k, picks) ==
  IF Len(k.connections) < k.min_connections THEN AfterRefresh(Refreshed(k), picks) ELSE k

\* index of the first connection whose future has completed, 0 when all are pending
FirstDone(conns) ==
  IF \E i \in 1 .. Len(conns) : conns[i].done
    THEN CHOOSE i \in 1 .. Len(conns) : conns[i].done /\ \A j \in 1 .. i - 1 : ~conns[j].done
    ELSE 0

\* mutant: only the first future of the list is polled
PollFirstOnly(conns) ==
  [i \in 1 .. Len(conns) |-> IF i = 1 THEN [conns[i] EXCEPT !.waker = TRUE] ELSE conns[i]]

\* connections.iter_mut().enumerate().filter_map(|(i, f)| match f.poll(cx) {..}).next():
\* the futures are polled in order up to the first that is not pending; a future that
\* was polled holds the waker of this poll call
PollFutures(conns) ==
  [i \in 1 .. Len(conns) |->
     IF FirstDone(conns) = 0 \/ i <= FirstDone(conns) THEN [conns[i] EXCEPT !.waker = TRUE]
     ELSE conns[i]]

\* no future has been polled in this call yet
NotPolledYet(conns) == [i \in 1 .. Len(conns) |-> [conns[i] EXCEPT !.waker = FALSE]]

\* self.connections.remove(i)
RemoveAt(q, i) == SubSeq(q, 1, i - 1) \o SubSeq(q, i + 1, Len(q))

\* mutant: the seeds are asked whatever nodns says
RefilledWhateverNodns(k, picks) == dns_lookup(k, picks)

\* if !self.nodns { self.dns_lookup() }
Refilled(k, picks) == IF k.nodns THEN k ELSE dns_lookup(k, picks)

RECURSIVE PollLoop(_, _, _, _)
\* mutant: the keeper suspends right after it dropped a finished connection
CheckedSuspendingEarly(k, ad, order, picks) ==
  IF k.state = "spin" THEN k
  ELSE IF Len(k.connections) = 0 THEN [k EXCEPT !.state = "ready"]
  ELSE IF FirstDone(k.connections) # 0
    THEN [k EXCEPT !.connections = RemoveAt(PollFutures(@), FirstDone(@)),
                   !.log = Append(@, KEv("remove", k.connections[FirstDone(k.connections)].addr, "")),
                   !.state = "pending"]
  ELSE [k EXCEPT !.state = "pending", !.connections = PollFutures(@)]

\* mutant: the keeper gives up as soon as it is under quota
CheckedFatalUnderQuota(k, ad, order, picks) ==
  IF k.state = "spin" THEN k
  ELSE IF Len(k.connections) < k.min_connections \/ Len(k.connections) = 0
    THEN [k EXCEPT !.state = "ready"]
  ELSE IF FirstDone(k.connections) # 0
    THEN PollLoop([k EXCEPT !.connections = RemoveAt(PollFutures(@), FirstDone(@)),
                            !.log = Append(@, KEv("remove", k.connections[FirstDone(k.connections)].addr, ""))],
                  ad, order, picks)
  ELSE [k EXCEPT !.state = "pending", !.connections = PollFutures(@)]

\* after the refill: Ready when no connection is left; else drop the first finished
\* connection and loop, or return Pending when every future is pending
Checked(k, ad, order, picks) ==
  IF k.state = "spin" THEN k
  ELSE IF Len(k.connections) = 0 THEN [k EXCEPT !.state = "ready"]
  ELSE IF FirstDone(k.connections) # 0
    THEN PollLoop([k EXCEPT !.connections = RemoveAt(PollFutures(@), FirstDone(@)),
                            !.log = Append(@, KEv("remove", k.connections[FirstDone(k.connections)].addr, ""))],
                  ad, order, picks)
  ELSE [k EXCEPT !.state = "pending", !.connections = PollFutures(@)]

\* loop { peers_from_db(); if !nodns { dns_lookup() }; .. }
PollLoop(k, ad, order, picks) ==
  Checked(Refilled(peers_from_db(k, ad, order), picks), ad, order, picks)

\* KeepConnected::poll
poll(k, ad, order, picks) ==
  PollLoop([k EXCEPT !.log = <<>>, !.ndial = 0, !.polled = TRUE,
                     !.connections = NotPolledYet(@)], ad, order, picks)

----------------------------------------------------------------------------
(* What peers send, and which calls may fail *)

PeerIds == {1, 2}

SeqsUpTo(S, n) == UNION {[1 .. k -> S] : k \in 0 .. n}

HeadersMessages == SeqsUpTo(HeaderIds, MaxHeaders)

InvEntries == [inv_type : {"Block", "Tx"}, hash : {Genesis, 1, 4}]
InvMessages == SeqsUpTo(InvEntries, MaxInv)

\* SystemTime::now() in seconds
Now == 10000
\* how many of the three conditions of line 270-272 an entry misses
Defects(e) ==
  (IF Routable(e.addr) THEN 0 ELSE 1) + (IF e.services = 9 THEN 0 ELSE 1)
    + (IF e.ts > Now - 3 * 60 * 30 THEN 0 ELSE 1)
\* entries of an Addr message: timestamps either side of the age limit, routable and onion
\* addresses, services with and without the witness bit; an entry misses at most one condition
AddrEntries ==
  {e \in [ts : {Now - 3 * 60 * 30, Now - 3 * 60 * 30 + 1}, addr : AddrIds, services : {1, 9}] :
      Defects(e) <= 1}
AddrMessages == SeqsUpTo(AddrEntries, MaxAddr)

Nonces == {7, 8}

\* transactions the upper layer hands to the Broadcaster
Txs == {21}

\* the orders in which an iteration may visit the entries of the peer map
IterationOrders(S) ==
  {o \in [1 .. Cardinality(S) -> S] : \A i, j \in 1 .. Cardinality(S) : o[i] = o[j] => i = j}

FaultsOf(ops) == {NoFault} \cup [op : ops, at : 1 .. MaxFaultAt]

\* what is kept of the dispatch before the one in `last`
Before(l) == [kind |-> l.kind, msg |-> l.msg, result |-> l.result]

NoDispatch == [kind |-> "none", peer |-> 0, msg |-> <<>>, fault |-> NoFault,
               pre |-> <<>>, result |-> Ack, log |-> <<>>,
               prev |-> [kind |-> "none", msg |-> <<>>, result |-> Ack]]

----------------------------------------------------------------------------
(* Locks.  chaindb is an RwLock (HeaderStore), configdb a Mutex            *)
(* (AddressStore), peers an RwLock (PeerTable), and every PeerHandle a     *)
(* Mutex.  A thread runs a handler as a script of steps: acquire a lock,   *)
(* release it, or act (a store call, a send, a look-up in the PeerTable).  *)
(* A guard lives as long as the Rust scope it is bound in: a guard bound   *)
(* by `let` to the end of the block, the temporary guard in the head of    *)
(* an `if let` or a `for` to the end of that statement.                    *)

\* the thread of the upper layer, which calls the Broadcaster
UpperLayer == 0

HeaderStoreLock == [name |-> "HeaderStore", id |-> 0]
AddressStoreLock == [name |-> "AddressStore", id |-> 0]
PeerTableLock == [name |-> "PeerTable", id |-> 0]
PeerHandleLock(p) == [name |-> "PeerHandle", id |-> p]

Acq(l, m) == [do |-> "acq", lock |-> l, mode |-> m, peer |-> 0]
Rel(l) == [do |-> "rel", lock |-> l, mode |-> "", peer |-> 0]
Act(what, p) == [do |-> what, lock |-> PeerTableLock, mode |-> "", peer |-> p]

\* sender.lock().unwrap().send(msg)
HandleSend(p) == <<Acq(PeerHandleLock(p), "lock"), Act("send", p), Rel(PeerHandleLock(p))>>

\* Dispatcher::send: if let Some(sender) = self.peers.read().unwrap().get(&peer) { .. }
\* the read guard of the `if let` head lives to the end of the statement
SendScript(p) == <<Acq(PeerTableLock, "read"), Act("lookup", p), Rel(PeerTableLock)>>

\* Dispatcher::get_headers: let chaindb = self.chaindb.read().unwrap(); header_locators();
\* self.send(..): the read guard lives to the end of the function
GetHeadersScript(p) ==
  <<Acq(HeaderStoreLock, "read")>> \o SendScript(p) \o <<Rel(HeaderStoreLock)>>

\* { let mut chaindb = self.chaindb.write().unwrap(); while let .. add_header ..; batch()? }
WriteSection(p) == <<Acq(HeaderStoreLock, "write"), Act("add_header", p)>>

\* Dispatcher::headers on a message that is not empty: the tip is read under a read guard
\* of its own, then the headers are added under the write guard
HeadersScript(p) ==
  <<Acq(HeaderStoreLock, "read"), Rel(HeaderStoreLock)>> \o WriteSection(p)

\* how the write section goes on: "return" is a return from inside the block (Ban(100),
\* Ignored or a store error: the guard is dropped without batch()), "again" another
\* round of the outer loop after a reorg, "known" the end with nothing new, "some_new"
\* the end with get_headers
AfterAddHeader(p, outcome) ==
  CASE outcome = "return" -> <<Rel(HeaderStoreLock)>>
    [] outcome = "again" -> <<Act("batch", p), Rel(HeaderStoreLock)>> \o WriteSection(p)
    [] outcome = "known" -> <<Act("batch", p), Rel(HeaderStoreLock)>>
    [] OTHER -> <<Act("batch", p), Rel(HeaderStoreLock)>> \o GetHeadersScript(p)

\* mutant: the read guard of the scan is still held when get_headers is called
InvHoldingGuard(p, ask) ==
  <<Acq(HeaderStoreLock, "read")>>
    \o (IF ask THEN GetHeadersScript(p) ELSE <<>>) \o <<Rel(HeaderStoreLock)>>

\* Dispatcher::inv on a Block entry: get_header under a read guard that is dropped at
\* the end of the `if` block, then get_headers if something was unknown
InvScript(p, ask) ==
  <<Acq(HeaderStoreLock, "read"), Rel(HeaderStoreLock)>>
    \o (IF ask THEN GetHeadersScript(p) ELSE <<>>)

\* Dispatcher::addr: let mut db = self.configdb.lock().unwrap(); .. tx.commit()?
AddrScript == <<Acq(AddressStoreLock, "lock"), Act("store_peer", 0), Rel(AddressStoreLock)>>

\* Broadcaster::broadcast_transaction: for (pid, peer) in self.peers.read().unwrap().iter() { .. }
\* the read guard of the `for` head lives to the end of the loop
BroadcastScript == <<Acq(PeerTableLock, "read"), Act("iterate", 0), Rel(PeerTableLock)>>

\* P2P: insert on connect, then Dispatcher::connected
ConnectScript(p) ==
  <<Acq(PeerTableLock, "write"), Act("insert", p), Rel(PeerTableLock)>> \o GetHeadersScript(p)

\* P2P: remove on disconnect, then Dispatcher::disconnected
DisconnectScript(p) == <<Acq(PeerTableLock, "write"), Act("remove", p), Rel(PeerTableLock)>>

RECURSIVE HandleSends(_)
HandleSends(order) ==
  IF order = <<>> THEN <<>> ELSE HandleSend(Head(order)) \o HandleSends(Tail(order))

\* one thread reads the socket of each peer and dispatches its messages
ThreadIds == PeerIds \cup {UpperLayer}

\* a thread: the steps it still has to run, and the guards it holds, oldest first
IdleThread == [script |-> <<>>, held |-> <<>>]

\* policy is what the RwLock does with a reader while a writer waits: "fair" lets the
\* writer go first, "readers" lets the reader in (std::sync::RwLock leaves it to the platform)
Threads(policy) == [policy |-> policy, thread |-> [t \in ThreadIds |-> IdleThread]]

Holds(t, l) == \E i \in 1 .. Len(sched.thread[t].held) : sched.thread[t].held[i].lock = l
HoldsAs(t, l, m) ==
  \E i \in 1 .. Len(sched.thread[t].held) :
     sched.thread[t].held[i].lock = l /\ sched.thread[t].held[i].mode = m

NextStep(t) == Head(sched.thread[t].script)
Running(t) == sched.thread[t].script # <<>>
Wants(t, l, m) ==
  Running(t) /\ NextStep(t).do = "acq" /\ NextStep(t).lock = l /\ NextStep(t).mode = m

\* whether thread t gets lock l in mode m now
CanAcquire(t, l, m) ==
  IF m = "read"
    THEN /\ \A u \in ThreadIds : ~HoldsAs(u, l, "write")
         /\ sched.policy = "fair" => \A u \in ThreadIds \ {t} : ~Wants(u, l, "write")
    ELSE \A u \in ThreadIds : ~Holds(u, l)

Blocked(t) ==
  Running(t) /\ NextStep(t).do = "acq" /\ ~CanAcquire(t, NextStep(t).lock, NextStep(t).mode)

Without(held, l) ==
  LET keep == {i \in 1 .. Len(held) : held[i].lock # l}
      Nth(k) == CHOOSE i \in keep : Cardinality({j \in keep : j < i}) = k - 1
  IN  [k \in 1 .. Cardinality(keep) |-> held[Nth(k)]]

----------------------------------------------------------------------------
(* The peer at the other end of header paging.  It holds the chain that    *)
(* ends in its best tip and answers a GetHeaders with the headers that     *)
(* follow the first locator hash it has on that chain, `batch` at most;    *)
(* with nothing to follow it answers with an empty Headers message.        *)

NoRemote == [best |-> Genesis, batch |-> 0]

\* the first hash of the locator that is on the chain ending in best
RECURSIVE FirstOnChain(_, _)
FirstOnChain(locator, best) ==
  IF locator = <<>> THEN Genesis
  ELSE IF Head(locator) \in Ancestors(best) THEN Head(locator)
  ELSE FirstOnChain(Tail(locator), best)

\* the headers of the chain ending in best that follow `from`, lowest first
Following(from, best) == Reverse(DownTo(best, from))

\* the Headers message that answers GetHeaders(locator)
PeerBatch(r, locator) ==
  LET rest == Following(FirstOnChain(locator, r.best), r.best)
  IN  SubSeq(rest, 1, IF Len(rest) < r.batch THEN Len(rest) ELSE r.batch)

\* the stores a node can have built from the headers of the universe: closed under
\* parents, the tip a header of most work
HeaderStores ==
  {st \in [hdrs : SUBSET (HeaderIds \cup {Genesis}), tip : HeaderIds \cup {Genesis}] :
     /\ Genesis \in st.hdrs /\ st.tip \in st.hdrs
     /\ \A h \in st.hdrs : PowOk(h) /\ (h # Genesis => prev_blockhash(h) \in st.hdrs)
     /\ \A h \in st.hdrs : Work(h) <= Work(st.tip)}

----------------------------------------------------------------------------
(* The state machine *)

Init ==
  /\ hdrs = {Genesis}
  /\ tip = Genesis
  /\ durable = [hdrs |-> {Genesis}, tip |-> Genesis]
  /\ addrs = [a \in AddrIds |-> NoRecord]
  /\ peers = {}
  /\ download_queue = <<>>
  /\ keeper = KeepConnected(1, <<>>, TRUE, <<>>)
  /\ sched = Threads("fair")
  /\ remote = NoRemote
  /\ pc = "idle"
  /\ last = NoDispatch

\* the handler returned with context c: its effects on the stores, and the record of the dispatch
Returned(kind, p, msg, f, c) ==
  /\ hdrs' = c.st.hdrs
  /\ tip' = c.st.tip
  /\ durable' = c.durable
  /\ addrs' = c.ad
  /\ download_queue' = c.dq
  /\ UNCHANGED <<keeper, sched, remote>>
  /\ pc' = "done"
  /\ last' = [kind |-> kind, peer |-> p, msg |-> msg,
              fault |-> IF f.op # "none" /\ c.calls >= f.at THEN f ELSE NoFault,
              pre |-> [hdrs |-> hdrs, tip |-> tip, durable |-> durable, addrs |-> addrs,
                       dq |-> download_queue],
              result |-> c.result, log |-> c.log, prev |-> last.prev]

\* P2P completed the handshake with p: it enters the PeerTable, then Dispatcher::connected(p)
Connected(p, f) ==
  /\ pc = "idle" /\ p \notin peers
  /\ peers' = peers \cup {p}
  /\ Returned("connected", p, <<>>, f, connected(Context(p, peers \cup {p}), f))

\* P2P lost p: it leaves the PeerTable, then Dispatcher::disconnected(p)
Disconnected(p) ==
  /\ pc = "idle" /\ p \in peers
  /\ peers' = peers \ {p}
  /\ Returned("disconnected", p, <<>>, NoFault, disconnected(Context(p, peers \ {p})))

\* process(Ping(nonce), p)
ProcessPing(p, nonce, f) ==
  /\ pc = "idle" /\ p \in peers
  /\ UNCHANGED peers
  /\ Returned("Ping", p, <<nonce>>, f, ping(Context(p, peers), f, nonce))

\* process(Headers(v), p)
ProcessHeaders(p, v, f) ==
  /\ pc = "idle" /\ p \in peers
  /\ UNCHANGED peers
  /\ Returned("Headers", p, v, f, headers(Context(p, peers), f, v))

\* process(Block(b), p)
ProcessBlock(p, b) ==
  /\ pc = "idle" /\ p \in peers
  /\ UNCHANGED peers
  /\ Returned("Block", p, <<b>>, NoFault, block(Context(p, peers)))

\* process(Inv(v), p)
ProcessInv(p, v, f) ==
  /\ pc = "idle" /\ p \in peers
  /\ UNCHANGED peers
  /\ Returned("Inv", p, v, f, inv(Context(p, peers), f, v))

\* process(Addr(v), p)
ProcessAddr(p, v, f) ==
  /\ pc = "idle" /\ p \in peers
  /\ UNCHANGED peers
  /\ Returned("Addr", p, v, f, addr(Context(p, peers), f, v, Now))

\* process(msg, p) for any other message
ProcessOther(p) ==
  /\ pc = "idle" /\ p \in peers
  /\ UNCHANGED peers
  /\ Returned("Other", p, <<>>, NoFault, other(Context(p, peers)))

\* the upper layer calls Broadcaster::broadcast_transaction(tx)
BroadcastTransaction(tx, order, failing) ==
  /\ pc = "idle"
  /\ UNCHANGED peers
  /\ Returned("broadcast", 0, <<tx>>, NoFault, broadcast_transaction(Context(0, peers), order, failing, tx))

\* P2P takes the ProcessResult (or the error) of the dispatch and goes on
TakeResult ==
  /\ pc = "done"
  /\ pc' = "idle"
  /\ last' = NoDispatch
  /\ UNCHANGED <<hdrs, tip, durable, addrs, peers, download_queue, keeper, sched, remote>>

\* every store call and every send succeeds
Next ==
  \/ \E p \in PeerIds : Connected(p, NoFault)
  \/ \E p \in PeerIds : Disconnected(p)
  \/ \E p \in PeerIds, n \in Nonces : ProcessPing(p, n, NoFault)
  \/ \E p \in PeerIds, v \in HeadersMessages : ProcessHeaders(p, v, NoFault)
  \/ \E p \in PeerIds, b \in HeaderIds : ProcessBlock(p, b)
  \/ \E p \in PeerIds, v \in InvMessages : ProcessInv(p, v, NoFault)
  \/ \E p \in PeerIds, v \in AddrMessages : ProcessAddr(p, v, NoFault)
  \/ \E p \in PeerIds : ProcessOther(p)
  \/ \E tx \in Txs, order \in IterationOrders(peers) : BroadcastTransaction(tx, order, {})
  \/ TakeResult

Spec == Init /\ [][Next]_vars

\* a store call or a send of the dispatch may fail
NextFault ==
  \/ \E p \in PeerIds, f \in FaultsOf({"send"}) : Connected(p, f)
  \/ \E p \in PeerIds : Disconnected(p)
  \/ \E p \in PeerIds, n \in Nonces, f \in FaultsOf({"send"}) : ProcessPing(p, n, f)
  \/ \E p \in PeerIds, v \in HeadersMessages,
        f \in FaultsOf({"add_header", "unwind_tip", "batch", "send"}) : ProcessHeaders(p, v, f)
  \/ \E p \in PeerIds, b \in HeaderIds : ProcessBlock(p, b)
  \/ \E p \in PeerIds, v \in InvMessages, f \in FaultsOf({"send"}) : ProcessInv(p, v, f)
  \/ \E p \in PeerIds, v \in AddrMessages,
        f \in FaultsOf({"transaction", "store_peer", "commit"}) : ProcessAddr(p, v, f)
  \/ \E p \in PeerIds : ProcessOther(p)
  \/ \E tx \in Txs, order \in IterationOrders(peers), failing \in SUBSET peers :
        BroadcastTransaction(tx, order, failing)
  \/ TakeResult

SpecFault == Init /\ [][NextFault]_vars

\* P2P takes the result and goes on to the next message; what was dispatched stays on record
NextMessage ==
  /\ pc = "done"
  /\ pc' = "idle"
  /\ last' = [NoDispatch EXCEPT !.prev = Before(last)]
  /\ UNCHANGED <<hdrs, tip, durable, addrs, peers, download_queue, keeper, sched, remote>>

\* message after message, each dispatch knowing the one before it
NextInSequence ==
  \/ \E p \in PeerIds : Connected(p, NoFault)
  \/ \E p \in PeerIds : Disconnected(p)
  \/ \E p \in PeerIds, v \in HeadersMessages : ProcessHeaders(p, v, NoFault)
  \/ \E p \in PeerIds : ProcessOther(p)
  \/ NextMessage

SpecInSequence == Init /\ [][NextInSequence]_vars

\* Node::connected(p) once P2P completed the handshake with p
NodeConnected(p) ==
  /\ pc = "idle" /\ p \notin peers
  /\ peers' = peers \cup {p}
  /\ Returned("NodeConnected", p, <<>>, NoFault, node_connected(Context(p, peers \cup {p}), NoFault))

\* Node::process(Headers(v), p)
NodeHeaders(p, v) ==
  /\ pc = "idle" /\ p \in peers
  /\ UNCHANGED peers
  /\ Returned("NodeHeaders", p, v, NoFault, node_headers(Context(p, peers), NoFault, v))

\* Node::process(Block(b), p)
NodeBlock(p, b) ==
  /\ pc = "idle" /\ p \in peers
  /\ UNCHANGED peers
  /\ Returned("NodeBlock", p, <<b>>, NoFault, node_block(Context(p, peers), NoFault, b))

\* the legacy Node in place of the Dispatcher
NextNode ==
  \/ \E p \in PeerIds : NodeConnected(p)
  \/ \E p \in PeerIds : Disconnected(p)
  \/ \E p \in PeerIds, v \in HeadersMessages : NodeHeaders(p, v)
  \/ \E p \in PeerIds, b \in HeaderIds : NodeBlock(p, b)
  \/ TakeResult

SpecNode == Init /\ [][NextNode]_vars

\* the node is run with some min_connections, with or without DNS, with or without a boot
\* peer, on an AddressStore that holds records from earlier runs
InitKeeper ==
  /\ hdrs = {Genesis}
  /\ tip = Genesis
  /\ durable = [hdrs |-> {Genesis}, tip |-> Genesis]
  /\ \E known \in SUBSET {a \in AddrIds : Routable(a)} :
        addrs = [a \in AddrIds |-> IF a \in known
                                     THEN [present |-> TRUE, services |-> ServicesMask,
                                           last_seen |-> Now, ban_score |-> 0]
                                     ELSE NoRecord]
  /\ peers = {}
  /\ download_queue = <<>>
  /\ \E m \in 0 .. MaxMinConnections, nodns \in BOOLEAN, seeds \in {<<>>, DnsSeeds},
        added \in {<<>>, <<[addr |-> BootPeer, src |-> "boot", done |-> FALSE, waker |-> FALSE]>>} :
        keeper = KeepConnected(m, added, nodns, seeds)
  /\ sched = Threads("fair")
  /\ remote = NoRemote
  /\ pc = "idle"
  /\ last = NoDispatch

\* the executor polls the keeper: at the start, and when a future that holds the waker
\* of the last poll has completed
KeeperPoll(order, picks) ==
  /\ \/ keeper.state = "start"
     \/ /\ keeper.state = "pending"
        /\ \E i \in 1 .. Len(keeper.connections) :
              keeper.connections[i].done /\ keeper.connections[i].waker
  /\ keeper' = poll(keeper, addrs, order, picks)
  /\ UNCHANGED <<hdrs, tip, durable, addrs, peers, download_queue, sched, remote, pc, last>>

\* a connection ends (the peer is lost or the dial failed): its future completes
ConnectionEnds(i) ==
  /\ keeper.state \in {"start", "pending"}
  /\ i \in 1 .. Len(keeper.connections)
  /\ ~keeper.connections[i].done
  /\ keeper' = [keeper EXCEPT !.connections[i].done = TRUE, !.polled = FALSE]
  /\ UNCHANGED <<hdrs, tip, durable, addrs, peers, download_queue, sched, remote, pc, last>>

\* the P2P task stores the address of a node a peer told of (Dispatcher::addr)
AddressLearned(a) ==
  /\ keeper.state \in {"start", "pending"}
  /\ Routable(a) /\ ~addrs[a].present
  /\ addrs' = store_peer(addrs, [addr |-> a, services |-> ServicesMask], Now, 0)
  /\ keeper' = [keeper EXCEPT !.polled = FALSE]
  /\ UNCHANGED <<hdrs, tip, durable, peers, download_queue, sched, remote, pc, last>>

NextKeeper ==
  \/ \E order \in IterationOrders(AddrIds), picks \in [1 .. DialBound -> {0, 1}] :
        KeeperPoll(order, picks)
  \/ \E i \in 1 .. MaxMinConnections + 1 : ConnectionEnds(i)
  \/ \E a \in AddrIds : AddressLearned(a)

SpecKeeper == InitKeeper /\ [][NextKeeper]_vars

\* the node starts with some peers connected, on a platform with either RwLock policy
InitLocks ==
  /\ hdrs = {Genesis}
  /\ tip = Genesis
  /\ durable = [hdrs |-> {Genesis}, tip |-> Genesis]
  /\ addrs = [a \in AddrIds |-> NoRecord]
  /\ peers \in SUBSET PeerIds
  /\ download_queue = <<>>
  /\ keeper = KeepConnected(1, <<>>, TRUE, <<>>)
  /\ \E policy \in {"fair", "readers"} : sched = Threads(policy)
  /\ remote = NoRemote
  /\ pc = "idle"
  /\ last = NoDispatch

\* thread t is given a handler to run
Begins(t, script) ==
  /\ ~Running(t)
  /\ sched' = [sched EXCEPT !.thread[t].script = script]
  /\ UNCHANGED <<hdrs, tip, durable, addrs, peers, download_queue, keeper, remote, pc, last>>

BeginConnect(p) == p \notin peers /\ Begins(p, ConnectScript(p))
BeginDisconnect(p) == p \in peers /\ Begins(p, DisconnectScript(p))
BeginPing(p) == p \in peers /\ Begins(p, SendScript(p))
BeginHeaders(p) == p \in peers /\ Begins(p, HeadersScript(p))
BeginInv(p, ask) == p \in peers /\ Begins(p, InvScript(p, ask))
BeginAddr(p) == p \in peers /\ Begins(p, AddrScript)
BeginBroadcast == Begins(UpperLayer, BroadcastScript)

\* the headers of a round are added; the handler goes on as the store's answers make it
AddHeaders(t, outcome) ==
  /\ Running(t) /\ NextStep(t).do = "add_header"
  /\ sched' = [sched EXCEPT !.thread[t].script = AfterAddHeader(NextStep(t).peer, outcome) \o Tail(@)]
  /\ UNCHANGED <<hdrs, tip, durable, addrs, peers, download_queue, keeper, remote, pc, last>>

\* the thread takes the lock its next step asks for
Acquire(t) ==
  /\ Running(t) /\ NextStep(t).do = "acq"
  /\ CanAcquire(t, NextStep(t).lock, NextStep(t).mode)
  /\ sched' = [sched EXCEPT !.thread[t].script = Tail(@),
                            !.thread[t].held = Append(@, [lock |-> NextStep(t).lock,
                                                          mode |-> NextStep(t).mode])]
  /\ UNCHANGED <<hdrs, tip, durable, addrs, peers, download_queue, keeper, remote, pc, last>>

\* a guard goes out of scope
Release(t) ==
  /\ Running(t) /\ NextStep(t).do = "rel"
  /\ sched' = [sched EXCEPT !.thread[t].script = Tail(@),
                            !.thread[t].held = Without(@, NextStep(t).lock)]
  /\ UNCHANGED <<hdrs, tip, durable, addrs, peers, download_queue, keeper, remote, pc, last>>

\* peers.get(&peer): the send follows if the peer has a handle
Lookup(t) ==
  /\ Running(t) /\ NextStep(t).do = "lookup"
  /\ sched' = [sched EXCEPT !.thread[t].script =
                 (IF NextStep(t).peer \in peers THEN HandleSend(NextStep(t).peer) ELSE <<>>)
                   \o Tail(@)]
  /\ UNCHANGED <<hdrs, tip, durable, addrs, peers, download_queue, keeper, remote, pc, last>>

\* peers.iter(): a send to every peer that has a handle
Iterate(t, order) ==
  /\ Running(t) /\ NextStep(t).do = "iterate"
  /\ sched' = [sched EXCEPT !.thread[t].script = HandleSends(order) \o Tail(@)]
  /\ UNCHANGED <<hdrs, tip, durable, addrs, peers, download_queue, keeper, remote, pc, last>>

\* P2P inserts or removes the handle of a peer
WriteTable(t) ==
  /\ Running(t) /\ NextStep(t).do \in {"insert", "remove"}
  /\ peers' = IF NextStep(t).do = "insert" THEN peers \cup {NextStep(t).peer}
                                           ELSE peers \ {NextStep(t).peer}
  /\ sched' = [sched EXCEPT !.thread[t].script = Tail(@)]
  /\ UNCHANGED <<hdrs, tip, durable, addrs, download_queue, keeper, remote, pc, last>>

\* a send on a handle, a store call or a notification
Acts(t) ==
  /\ Running(t)
  /\ NextStep(t).do \in {"send", "batch", "store_peer"}
  /\ sched' = [sched EXCEPT !.thread[t].script = Tail(@)]
  /\ UNCHANGED <<hdrs, tip, durable, addrs, peers, download_queue, keeper, remote, pc, last>>

NextLocks ==
  \/ \E p \in PeerIds : BeginConnect(p)
  \/ \E p \in PeerIds : BeginDisconnect(p)
  \/ \E p \in PeerIds : BeginPing(p)
  \/ \E p \in PeerIds : BeginHeaders(p)
  \/ \E p \in PeerIds, ask \in BOOLEAN : BeginInv(p, ask)
  \/ \E p \in PeerIds : BeginAddr(p)
  \/ BeginBroadcast
  \/ \E t \in ThreadIds : Acquire(t)
  \/ \E t \in ThreadIds : Release(t)
  \/ \E t \in ThreadIds : Lookup(t)
  \/ \E t \in ThreadIds, order \in IterationOrders(peers) : Iterate(t, order)
  \/ \E t \in ThreadIds : WriteTable(t)
  \/ \E t \in ThreadIds, outcome \in {"return", "again", "known", "some_new"} : AddHeaders(t, outcome)
  \/ \E t \in ThreadIds : Acts(t)

SpecLocks == InitLocks /\ [][NextLocks]_vars

\* a node with some header store; a peer with some chain and batch size
InitPaging ==
  /\ \E st \in HeaderStores : hdrs = st.hdrs /\ tip = st.tip /\ durable = st
  /\ addrs = [a \in AddrIds |-> NoRecord]
  /\ peers = {}
  /\ download_queue = <<>>
  /\ keeper = KeepConnected(1, <<>>, TRUE, <<>>)
  /\ sched = Threads("fair")
  /\ \E best \in {h \in HeaderIds : PowOk(h)}, size \in 1 .. MaxBatch :
        remote = [best |-> best, batch |-> size]
  /\ pc = "idle"
  /\ last = NoDispatch

\* the one peer connects
PeerConnects(p) == peers = {} /\ Connected(p, NoFault)

\* the last dispatch sent a GetHeaders to a peer that is still connected
AnswerAwaited ==
  /\ pc = "done" /\ last.peer \in peers
  /\ \E i \in 1 .. Len(last.log) : last.log[i].ev = "send" /\ last.log[i].ret = "GetHeaders"

\* the peer answers the GetHeaders of the last dispatch, and its answer is dispatched
AnswerDispatched ==
  /\ AnswerAwaited
  /\ \E i \in 1 .. Len(last.log) :
        /\ last.log[i].ev = "send" /\ last.log[i].ret = "GetHeaders"
        /\ UNCHANGED peers
        /\ Returned("Headers", last.peer, PeerBatch(remote, last.log[i].seq), NoFault,
                    headers(Context(last.peer, peers), NoFault, PeerBatch(remote, last.log[i].seq)))

NextPaging ==
  \/ \E p \in PeerIds : PeerConnects(p)
  \/ AnswerDispatched

\* The peer connects, answers every GetHeaders, and P2P dispatches every answer: weak
\* fairness of both actions.  AnswerDispatched is enabled exactly when AnswerAwaited
\* holds, so its fairness is written with that condition in place of ENABLED.
SpecPaging ==
  /\ InitPaging /\ [][NextPaging]_vars
  /\ WF_vars(\E p \in PeerIds : PeerConnects(p))
  /\ (<>[]AnswerAwaited => []<><<AnswerDispatched>>_vars)

----------------------------------------------------------------------------
(* Properties.  They are read off a dispatch that has returned:            *)
(* last.msg is the message, last.pre the stores before it, last.log the    *)
(* calls it made and hdrs, tip, durable, addrs the stores after it.        *)

Done(kind) == pc = "done" /\ last.kind = kind

LogIdx == 1 .. Len(last.log)
Calls(ev) == {i \in LogIdx : last.log[i].ev = ev}
GetHeadersSends == {i \in Calls("send") : last.log[i].ret = "GetHeaders"}
SubLog(from, n) == [k \in 1 .. n |-> last.log[from + k - 1]]

\* the add_header calls that returned a stored header, reported forwards, reported unwinds
StoredCalls == {i \in Calls("add_header") : last.log[i].ret = "Some"}
ForwardCalls == {i \in Calls("add_header") : last.log[i].ok}
ReorgCalls == {i \in Calls("add_header") : last.log[i].seq # <<>>}
BadPowCalls == {i \in Calls("add_header") : last.log[i].ret = "BadProofOfWork"}

(* C1: if a header of a Headers message fails the proof-of-work check,     *)
(* process returns Ban(100) and the HeaderStore (stored headers and tip)   *)
(* is as it was before the message, whatever precedes the bad header.      *)
C1_BadPowLeavesStoreUnchanged ==
  (Done("Headers") /\ BadPowCalls # {}) =>
     /\ last.result = Ban(100)
     /\ hdrs = last.pre.hdrs
     /\ tip = last.pre.tip

(* C2: a non-empty Headers message processed without error returns         *)
(* Height(h), h the height of the tip after the dispatch, if some          *)
(* add_header call reported forwards, and Ack otherwise.                   *)
C2_HeightIsTipHeight ==
  (Done("Headers") /\ last.msg # <<>> /\ last.result.kind \in {"Ack", "Height"}) =>
     IF ForwardCalls # {}
       THEN last.result = Height(HeightOf(tip))
       ELSE last.result = Ack

\* the tip moved, and a header stored after that lies on a branch that is not the best chain
C2_Witness ==
  /\ Done("Headers") /\ last.result.kind = "Height"
  /\ \E i \in ForwardCalls : \E j \in Calls("add_header") :
        /\ j > i
        /\ last.log[j].ret = "None"
        /\ last.log[j].h \notin last.pre.hdrs
        /\ last.log[j].h \in hdrs
        /\ last.log[j].h \notin Ancestors(tip)

\* the tip when the i-th call of the dispatch was made
TipBefore(i) ==
  IF \E j \in ForwardCalls : j < i
    THEN last.log[CHOOSE j \in ForwardCalls : j < i /\ \A k \in ForwardCalls : k < i => k <= j].h
    ELSE last.pre.tip

\* the unwinds reported by call i run from the old tip, parent by parent, to the fork point
FromOldTipDown(i) ==
  LET u == last.log[i].seq
  IN  /\ u[1] = TipBefore(i)
      /\ \A k \in 1 .. Len(u) - 1 : u[k + 1] = prev_blockhash(u[k])
      /\ \A k \in 1 .. Len(u) : u[k] \notin Ancestors(last.log[i].h)
      /\ prev_blockhash(u[Len(u)]) \in Ancestors(last.log[i].h)

\* the batch() that follows reorg call i and its unwind_tip calls returned Ok
BatchOkAfter(i) ==
  LET b == i + Len(last.log[i].seq) + 1
  IN  b \in Calls("batch") /\ last.log[b].ok

\* the calls right after that batch() are block_disconnected(u[1]), .., block_disconnected(u[n])
NotifiedAfter(i) ==
  LET u == last.log[i].seq
      b == i + Len(u) + 1
  IN  /\ b + Len(u) <= Len(last.log)
      /\ \A k \in 1 .. Len(u) :
            last.log[b + k].ev = "block_disconnected" /\ last.log[b + k].h = u[k]
      /\ (b + Len(u) + 1 \in LogIdx => last.log[b + Len(u) + 1].ev # "block_disconnected")

(* C3: for every reorg of a Headers dispatch, BlockDisconnected is invoked *)
(* exactly once per unwound header, from the old tip down to the fork      *)
(* point (exclusive), and only after the batch() for that reorg returned   *)
(* Ok; it is invoked in no other place.                                    *)
C3_DisconnectedAfterBatchInOrder ==
  Done("Headers") =>
     /\ \A i \in ReorgCalls :
           /\ FromOldTipDown(i)
           /\ last.fault.op \notin {"unwind_tip", "batch"} => BatchOkAfter(i)
           /\ BatchOkAfter(i) => NotifiedAfter(i)
     /\ \A d \in Calls("block_disconnected") :
           \E i \in ReorgCalls :
              /\ BatchOkAfter(i)
              /\ d > i + Len(last.log[i].seq) + 1
              /\ d <= i + 2 * Len(last.log[i].seq) + 1

\* a reorg of depth 2 was notified
C3_Witness ==
  /\ Done("Headers")
  /\ Cardinality(Calls("block_disconnected")) = 2
  /\ \E i \in ReorgCalls : Len(last.log[i].seq) = 2 /\ BatchOkAfter(i)

(* C4: after any sequence of Headers dispatches the tip is the stored      *)
(* header with maximal cumulative work, and the tip changes only to a      *)
(* header with strictly more work (on equal work the incumbent stays).     *)
C4_TipHasMaximalWork ==
  /\ tip \in hdrs
  /\ \A h \in hdrs : Work(h) <= Work(tip)
  /\ (pc = "done" /\ tip # last.pre.tip) => Work(tip) > Work(last.pre.tip)

\* a header tying with the tip was stored and the incumbent tip stayed
C4_Witness ==
  /\ Done("Headers")
  /\ tip = last.pre.tip
  /\ \E h \in hdrs \ last.pre.hdrs : h # tip /\ Work(h) = Work(tip)

(* C5: process(Headers(v), p) sends GetHeaders, to p only, iff some        *)
(* add_header call returned a stored header and processing ended without   *)
(* Ban or Ignored; a message of known headers sends none and returns Ack.  *)
C5_GetHeadersIffSomeNew ==
  Done("Headers") =>
     /\ \A i \in Calls("send") : last.log[i].to = last.peer /\ i \in GetHeadersSends
     /\ Cardinality(GetHeadersSends) <= 1
     /\ GetHeadersSends # {} <=>
          (StoredCalls # {} /\ last.result.kind \notin {"Ban", "Ignored"})
     /\ (last.msg # <<>> /\ \A k \in 1 .. Len(last.msg) : last.msg[k] \in last.pre.hdrs) =>
          (GetHeadersSends = {} /\ last.result = Ack)

\* GetHeaders went to the sender of the headers while another peer was connected
C5_Witness ==
  /\ Done("Headers")
  /\ peers = PeerIds
  /\ GetHeadersSends # {}
  /\ StoredCalls # {}

(* C6: an Inv message with an entry that is not a Block returns Ban(10)    *)
(* and sends nothing, wherever that entry stands.                          *)
C6_NonBlockInvBans ==
  (Done("Inv") /\ \E k \in 1 .. Len(last.msg) : last.msg[k].inv_type # "Block") =>
     /\ last.result = Ban(10)
     /\ Calls("send") = {}

\* an unknown Block entry precedes the entry that is not a Block
C6_Witness ==
  /\ Done("Inv")
  /\ Len(last.msg) = 2
  /\ last.msg[1].inv_type = "Block" /\ last.msg[1].hash \notin last.pre.hdrs
  /\ last.msg[2].inv_type = "Tx"

(* C7: an Inv message of Block entries only sends exactly one GetHeaders   *)
(* to the announcing peer and returns Ack if some hash is not in the       *)
(* HeaderStore; otherwise it sends nothing and returns Ignored; no store   *)
(* changes.                                                                *)
C7_BlockInvAsksOnce ==
  (Done("Inv") /\ \A k \in 1 .. Len(last.msg) : last.msg[k].inv_type = "Block") =>
     /\ hdrs = last.pre.hdrs /\ tip = last.pre.tip
     /\ durable = last.pre.durable /\ addrs = last.pre.addrs
     /\ IF \E k \in 1 .. Len(last.msg) : last.msg[k].hash \notin last.pre.hdrs
          THEN /\ Len(last.log) = 1
               /\ GetHeadersSends = {1}
               /\ last.log[1].to = last.peer
               /\ last.result = Ack
          ELSE /\ last.log = <<>>
               /\ last.result = Ignored

\* a known hash first, an unknown one after it
C7_Witness ==
  /\ Done("Inv")
  /\ Len(last.msg) = 2
  /\ \A k \in 1 .. 2 : last.msg[k].inv_type = "Block"
  /\ last.msg[1].hash \notin last.pre.hdrs
  /\ last.msg[2].hash \in last.pre.hdrs
  /\ GetHeadersSends # {}

\* bit b (a power of two) is set in s
HasBit(s, b) == (s \div b) % 2 = 1

\* the entry is one the AddressStore is to take
Qualifies(a) ==
  /\ Routable(a.addr)
  /\ HasBit(a.services, 1) /\ HasBit(a.services, 8)
  /\ a.ts > Now - 5400

\* the entries of v to be stored, in order
RECURSIVE Qualifying(_)
Qualifying(v) ==
  IF v = <<>> THEN <<>>
  ELSE (IF Qualifies(Head(v)) THEN <<Head(v)>> ELSE <<>>) \o Qualifying(Tail(v))

C9_AddressStoreFiltered ==
  \A a \in AddrIds :
     addrs[a].present =>
        Routable(a) /\ HasBit(addrs[a].services, 1) /\ HasBit(addrs[a].services, 8)

\* an Addr message offered an onion address and a node without the witness bit, one record is stored
C9_Witness ==
  /\ Done("Addr")
  /\ \E k \in 1 .. Len(last.msg) : ~Routable(last.msg[k].addr) /\ last.msg[k].services = 9
  /\ \E k \in 1 .. Len(last.msg) : Routable(last.msg[k].addr) /\ last.msg[k].services = 1
  /\ \E a \in AddrIds : addrs[a].present

(* C10: when a store operation of a dispatch fails (opening a transaction, *)
(* store_peer, commit, unwind_tip, batch), process returns Ignored or Ban  *)
(* and never the store error.                                              *)
C10_StoreFailureNotPropagated ==
  (pc = "done" /\ last.fault.op \in {"transaction", "store_peer", "commit", "unwind_tip", "batch"}) =>
     last.result.kind \in {"Ignored", "Ban"}

(* C11: when the send of the reply to the peer fails in a targeted         *)
(* dispatch (Pong for Ping, GetHeaders on connected, after Headers or      *)
(* after Inv), the dispatch returns Ack and not an error.                  *)
C11_SendFailureDegradedToAck ==
  (pc = "done" /\ last.fault.op = "send") => last.result = Ack

(* C12: every GetHeaders the dispatcher sends carries the locator          *)
(* header_locators() returns when it is sent and as stop hash the first    *)
(* locator element, the hash of the tip; connected(p) sends exactly one    *)
(* such message, to p, and returns Ack.                                    *)
C12_GetHeadersFromLocator ==
  pc = "done" =>
     /\ \A i \in GetHeadersSends :
           /\ last.log[i].seq = header_locators([hdrs |-> hdrs, tip |-> tip])
           /\ last.log[i].h = last.log[i].seq[1]
           /\ last.log[i].h = tip
           /\ \A j \in LogIdx : j > i => last.log[j].ev = "send"
     /\ last.kind = "connected" =>
           /\ Len(last.log) = 1 /\ GetHeadersSends = {1}
           /\ last.log[1].to = last.peer
           /\ last.result = Ack

\* a GetHeaders after the tip moved, its locator longer than one hash
C12_Witness ==
  /\ Done("Headers")
  /\ tip # last.pre.tip
  /\ \E i \in GetHeadersSends : Len(last.log[i].seq) >= 2 /\ last.log[i].h = tip

(* C13: broadcast_transaction(tx) attempts to send Tx(tx) exactly once to  *)
(* every peer of the PeerTable; a send that fails neither keeps the send   *)
(* from any other peer nor makes the broadcast fail; with an empty         *)
(* PeerTable nothing is sent and the call returns normally.                *)
C13_BroadcastReachesEveryPeer ==
  Done("broadcast") =>
     /\ Len(last.log) = Cardinality(peers)
     /\ \A i \in LogIdx :
           last.log[i].ev = "send" /\ last.log[i].ret = "Tx" /\ last.log[i].h = last.msg[1]
     /\ \A p \in peers : Cardinality({i \in LogIdx : last.log[i].to = p}) = 1
     /\ last.result = Unit
     /\ hdrs = last.pre.hdrs /\ tip = last.pre.tip /\ addrs = last.pre.addrs

\* the send to the peer visited first failed and the peer visited after it was sent the transaction
C13_Witness ==
  /\ Done("broadcast")
  /\ Len(last.log) = 2
  /\ ~last.log[1].ok
  /\ last.log[2].ok /\ last.log[2].to # last.log[1].to

\* the dispatch in `last` is of the Headers message dispatched just before it
Repeated ==
  /\ Done("Headers")
  /\ last.prev.kind = "Headers"
  /\ last.prev.msg = last.msg

\* Ack, the HeaderStore as before, no BlockDisconnected, no GetHeaders
NothingNew ==
  /\ last.result = Ack
  /\ hdrs = last.pre.hdrs /\ tip = last.pre.tip /\ durable = last.pre.durable
  /\ Calls("block_disconnected") = {}
  /\ GetHeadersSends = {}

(* C20 as stated: dispatching the same Headers message a second time, no   *)
(* other message in between, returns Ack, leaves the HeaderStore           *)
(* unchanged, invokes no BlockDisconnected and sends no GetHeaders.        *)
C20_RepeatedHeadersAck ==
  Repeated => NothingNew

(* C20, amended: if a Headers message was processed to Ack or Height,      *)
(* dispatching the same message again with no other message in between     *)
(* returns Ack, leaves the HeaderStore unchanged, invokes no               *)
(* BlockDisconnected and sends no GetHeaders.                              *)
C20_RepeatedAcceptedHeadersAck ==
  (Repeated /\ last.prev.result.kind \in {"Ack", "Height"}) => NothingNew

\* a message of two headers that moved the tip is dispatched again
C20_Witness ==
  /\ Repeated
  /\ last.prev.result.kind = "Height"
  /\ Len(last.msg) = 2
  /\ last.result = Ack

\* no hash stands at two places of the queue
NoDuplicates(q) == \A i, j \in 1 .. Len(q) : q[i] = q[j] => i = j

(* C14: after any sequence of block enqueues (download_blocks from the     *)
(* Headers handler or with an empty list) and Block arrivals, the          *)
(* DownloadQueue holds no hash more than once.                             *)
C14_QueueHasNoDuplicates ==
  NoDuplicates(download_queue)

C16_BlockThenGetHeaders ==
  (pc = "done" /\ last.kind \in {"Block", "NodeBlock"}) =>
     \E i \in GetHeadersSends : last.log[i].to = last.peer

----------------------------------------------------------------------------
(* KeepConnected *)

\* poll has just returned Pending
Suspended == keeper.polled /\ keeper.state = "pending"

\* an AddressStore record not yet tried, or DNS enabled with a non-empty seed list
CandidateAvailable ==
  \/ \E a \in AddrIds : addrs[a].present /\ a \notin keeper.earlier
  \/ ~keeper.nodns /\ keeper.seeds # <<>>

\* the last poll dropped a finished connection
DroppedOne == \E i \in 1 .. Len(keeper.log) : keeper.log[i].ev = "remove"

C18_ReadyIffNoConnection ==
  /\ (keeper.polled /\ keeper.state \in {"pending", "ready"}) =>
        (keeper.state = "ready" <=> keeper.connections = <<>>)
  /\ keeper.state = "ready" => keeper.connections = <<>>
  /\ (~keeper.nodns /\ keeper.seeds # <<>> /\ keeper.min_connections >= 1) =>
        keeper.state # "ready"

\* the last connection ended, the store had no untried record, the future completed
C18_Witness ==
  /\ keeper.state = "ready"
  /\ keeper.min_connections >= 1
  /\ DroppedOne
  /\ \E i \in 1 .. Len(keeper.log) : keeper.log[i] = KEv("get_a_peer", 0, "db")

DnsDial(e) == e.ev = "add_peer" /\ e.src = "dns"

----------------------------------------------------------------------------
(* Ping *)

\* the stores are as they were before the dispatch
StoresUntouched ==
  /\ hdrs = last.pre.hdrs /\ tip = last.pre.tip
  /\ durable = last.pre.durable /\ addrs = last.pre.addrs

\* C21: process(Ping(n), p) with p in the PeerTable makes one call, a send of Pong(n)
\* to p (so nothing goes to any other peer), changes no store and returns Ack
C21_PingAnsweredByOnePong ==
  Done("Ping") =>
     /\ last.log = <<Ev("send", "Pong", last.msg[1], last.peer, <<>>, TRUE)>>
     /\ StoresUntouched
     /\ last.result = Ack

\* a ping of one of two connected peers, with headers and addresses in the stores
C21_Witness ==
  /\ Done("Ping") /\ peers = PeerIds /\ last.peer = 2
  /\ tip # Genesis /\ \E a \in AddrIds : addrs[a].present
  /\ Len(last.log) = 1 /\ last.log[1].to = 2 /\ last.log[1].h = last.msg[1]

----------------------------------------------------------------------------
(* KeepConnected: the DNS refill *)

\* C22: under quota with DNS enabled and an empty answer of the seed lookup, the DNS
\* refill ends: no poll stays in dns_lookup, it goes on to the zero-connection check
C22_DnsRefillEnds == keeper.state # "spin"

----------------------------------------------------------------------------
(* Locks *)

Sending(t) == Running(t) /\ NextStep(t).do = "send"

\* C23: while a thread sends on a PeerHandle, for a broadcast or for a dispatcher send,
\* it does not hold the read lock of the PeerTable
C23_NoTableLockDuringSend ==
  \A t \in ThreadIds : Sending(t) => ~Holds(t, PeerTableLock)

LockRank(l) ==
  CASE l.name = "HeaderStore" -> 1
    [] l.name = "AddressStore" -> 2
    [] l.name = "PeerTable" -> 3
    [] OTHER -> 4

HeldOf(t) == sched.thread[t].held

\* every thread took the locks it holds in the order HeaderStore, AddressStore,
\* PeerTable, PeerHandle
InLockOrder(t) ==
  \A i, j \in 1 .. Len(HeldOf(t)) :
     i < j => LockRank(HeldOf(t)[i].lock) < LockRank(HeldOf(t)[j].lock)

\* a thread waits for a lock and no thread can take a step of its handler
Deadlocked ==
  /\ \E t \in ThreadIds : Blocked(t)
  /\ \A t \in ThreadIds : Running(t) => Blocked(t)

\* C24: in every interleaving of dispatches and broadcasts each thread takes its locks
\* in the order HeaderStore, AddressStore, PeerTable, PeerHandle, holds at most one
\* store lock, holds the PeerTable next to a store lock only for read, and no state
\* is a deadlock
C24_LockOrderNoDeadlock ==
  /\ \A t \in ThreadIds :
        /\ InLockOrder(t)
        /\ ~(Holds(t, HeaderStoreLock) /\ Holds(t, AddressStoreLock))
        /\ (Holds(t, PeerTableLock) /\ (Holds(t, HeaderStoreLock) \/ Holds(t, AddressStoreLock)))
              => HoldsAs(t, PeerTableLock, "read")
  /\ ~Deadlocked

\* a thread sends holding HeaderStore, PeerTable and a PeerHandle, a second waits to
\* write the PeerTable, and a third is kept from reading it by the waiting writer
C24_Witness ==
  \E t, u, v \in ThreadIds :
     /\ t # u /\ u # v /\ t # v
     /\ Len(HeldOf(t)) = 3 /\ Sending(t)
     /\ Blocked(u) /\ NextStep(u).lock = PeerTableLock /\ NextStep(u).mode = "write"
     /\ Blocked(v) /\ NextStep(v).lock = PeerTableLock /\ NextStep(v).mode = "read"

----------------------------------------------------------------------------
(* batch() and the dispatch it belongs to *)

\* the headers this dispatch handed to add_header
AddedHere == {last.log[i].h : i \in Calls("add_header")}

BatchedHere == \E i \in Calls("batch") : last.log[i].ok

\* C25: what the batch() calls of a Headers dispatch make durable are add_header
\* effects of that same dispatch: no header added by another dispatch is committed
C25_BatchCommitsOwnHeaders ==
  (Done("Headers") /\ BatchedHere) =>
     (durable.hdrs \ last.pre.durable.hdrs) \subseteq AddedHere

----------------------------------------------------------------------------
(* KeepConnected: what the keeper waits for *)

\* C26: whenever poll returns Pending, every future left in the connection list was
\* polled in that call and was pending: none that has completed stays in the list and
\* none, newly dialed or not, is left without the waker
C26_SuspendedOnAllFutures ==
  Suspended =>
     \A i \in 1 .. Len(keeper.connections) :
        keeper.connections[i].waker /\ ~keeper.connections[i].done

\* a poll dropped a finished connection, dialed a replacement and suspended on two
\* futures, the replacement among them
C26_Witness ==
  /\ Suspended /\ Len(keeper.connections) >= 2
  /\ \E i, j \in 1 .. Len(keeper.log) :
        /\ i < j /\ keeper.log[i].ev = "remove" /\ keeper.log[j].ev = "add_peer"
        /\ keeper.connections[Len(keeper.connections)].addr = keeper.log[j].a
  /\ \A i \in 1 .. Len(keeper.connections) : keeper.connections[i].waker

----------------------------------------------------------------------------
(* KeepConnected: the tried set *)

DbDial(e) == e.ev = "add_peer" /\ e.src = "db"

\* the step is a call of poll
IsPoll == ~keeper.polled /\ keeper'.polled

\* C27: an address the keeper dials from the AddressStore was not in the tried set
\* before the poll and is in it after, no poll dials it twice, and the tried set never
\* loses an address: within a session no stored address is dialed a second time,
\* whatever became of its connection
C27_StoreAddressDialedOnce ==
  [][/\ keeper.earlier \subseteq keeper'.earlier
     /\ IsPoll =>
          \A i \in 1 .. Len(keeper'.log) :
             DbDial(keeper'.log[i]) =>
                /\ keeper'.log[i].a \notin keeper.earlier
                /\ keeper'.log[i].a \in keeper'.earlier
                /\ \A j \in 1 .. Len(keeper'.log) :
                      (DbDial(keeper'.log[j]) /\ keeper'.log[j].a = keeper'.log[i].a) => j = i]_vars

\* the connection to a stored address ended, the keeper was under quota and asked the
\* store again, and the address was not dialed again
C27_Witness ==
  /\ keeper.polled
  /\ \E a \in keeper.earlier :
        /\ \E i, j \in 1 .. Len(keeper.log) :
              i < j /\ keeper.log[i] = KEv("remove", a, "") /\ keeper.log[j].ev = "get_a_peer"
        /\ \A i \in 1 .. Len(keeper.connections) : keeper.connections[i].addr # a
        /\ \A i \in 1 .. Len(keeper.log) : ~(DbDial(keeper.log[i]) /\ keeper.log[i].a = a)

----------------------------------------------------------------------------
(* Orphans *)

\* the message holds a header whose parent is neither stored nor earlier in the message
HoldsOrphan ==
  \E k \in 1 .. Len(last.msg) :
     /\ last.msg[k] \notin last.pre.hdrs
     /\ prev_blockhash(last.msg[k]) \notin
          last.pre.hdrs \cup {last.msg[j] : j \in 1 .. k - 1}

OrphanCalls == {i \in Calls("add_header") : last.log[i].ret = "OrphanHeader"}

(* C28 as stated: a Headers message that holds a header whose parent is    *)
(* unknown to the HeaderStore returns Ignored, never a Ban, and no         *)
(* GetHeaders is sent for it.                                              *)
C28_OrphanMessageIgnored ==
  (Done("Headers") /\ HoldsOrphan) =>
     /\ last.result = Ignored
     /\ GetHeadersSends = {}

(* C28, amended: if add_header reports a header of the message as an       *)
(* orphan (processing got to it: no header before it failed the            *)
(* proof-of-work check), the dispatch returns Ignored, sends no GetHeaders, *)
(* and the orphan is the last header handed to add_header: the headers     *)
(* after it in the message are not processed.                              *)
C28_ReachedOrphanIgnored ==
  (Done("Headers") /\ OrphanCalls # {}) =>
     /\ last.result = Ignored
     /\ GetHeadersSends = {}
     /\ last.log[Len(last.log)].ret = "OrphanHeader"
     /\ Cardinality(OrphanCalls) = 1
     /\ last.log[Len(last.log)].h = last.msg[Cardinality(Calls("add_header"))]
     /\ hdrs \ last.pre.hdrs \subseteq
          {last.msg[j] : j \in 1 .. Cardinality(Calls("add_header")) - 1}

\* the orphan stands first, before a header that could have been stored and was not
C28_Witness ==
  /\ Done("Headers") /\ OrphanCalls = {1}
  /\ Len(last.msg) = 2 /\ Len(last.log) = 1
  /\ prev_blockhash(last.msg[2]) \in hdrs /\ last.msg[2] \notin hdrs /\ PowOk(last.msg[2])
  /\ last.result = Ignored

----------------------------------------------------------------------------
(* Header paging *)

\* the last Headers message stored nothing, no GetHeaders went out after it, and the
\* tip is the peer's best tip
PagingOver ==
  /\ Done("Headers")
  /\ hdrs = last.pre.hdrs /\ tip = last.pre.tip
  /\ GetHeadersSends = {}
  /\ tip = remote.best

(* C29 as stated: with a peer that holds a fixed valid chain and answers    *)
(* every GetHeaders with the next batch after the locator, after finitely   *)
(* many Headers messages the tip is the peer's best tip, the last message   *)
(* stored nothing new and no further GetHeaders is sent.                    *)
C29_PagingReachesPeerTip == <>PagingOver

(* C29, amended: if the node's tip is on the peer's chain (the peer's chain *)
(* extends the node's), then after finitely many Headers messages the tip   *)
(* is the peer's best tip, the last message stored nothing new and no       *)
(* further GetHeaders is sent.                                              *)
C29_PagingReachesExtendingTip ==
  (tip \in Ancestors(remote.best)) => <>PagingOver

\* paging in batches of one header brought the tip to a peer's tip of height 2 and
\* ended on the peer's empty answer
C29_Witness ==
  /\ PagingOver
  /\ last.msg = <<>> /\ last.result = Ignored
  /\ remote.batch = 1 /\ HeightOf(tip) = 2
  /\ hdrs = Ancestors(tip)

====
